---- MODULE Spec2Model ----
(***************************************************************************)
(* Verification model of frozenboot's ext4 extent-tree reader              *)
(* (src/fs/ext4/extent.rs) and of the partition dispatch that feeds it     *)
(* (src/fs/partitions/mod.rs).                                             *)
(*                                                                         *)
(* Unsigned integers wider than 16 bits are kept at their full width as    *)
(* little-endian sequences of 16-bit limbs: a u32 is <<w0, w1>>, a u64 is  *)
(* <<w0, w1, w2, w3>>, and a 12-byte on-disk record is six limbs.          *)
(***************************************************************************)
EXTENDS Integers, Sequences, FiniteSets, TLC

VARIABLES
    overflow_checks,    \* build profile: TRUE = arithmetic overflow panics, FALSE = it wraps
    search_impl,        \* which core::slice::binary_search_by the toolchain ships
    feature_extents,    \* superblock: EXT4_FEATURE_INCOMPAT_EXTENTS is set
    uses_extent_tree,   \* inode: the inode declares it uses an extent tree
    i_block,            \* the inode's inline extent node (60 bytes: header + 4 records)
    disk,               \* block id -> extent block stored there, or IoFail
    pc,                 \* position of the load: idle, traverse, loaded, not_applicable,
                        \* panicked (the load itself crashed)
    stack,              \* live traverse_extent_layer calls, innermost last
    extents,            \* the Vec<Extent> being collected
    tree,               \* extents of the returned ExtentTree
    log_count,          \* checksum-mismatch logs emitted by error!()
    reads,              \* block reads issued to the device
    read_failed,        \* history: some child read failed during the load
    bad_header_seen,    \* history: a traversed header had a bad magic or depth > 5
    count_over_seen,    \* history: a traversed header's entries exceeded its max or its bytes
    fs_readers,         \* read guards held on the filesystem lock
    sb_readers,         \* read guards held on the superblock lock
    inode_readers,      \* read guards held on the inode lock
    last_blk,           \* argument of the last get_exact_blk_mapping call
    last_res,           \* its result: NoLookup, None, Panic or [some |-> u64]
    p_args,             \* Partition::from_metadata's arguments: part_id, drive_id, metadata
    p_identify,         \* what Ext4Fs::identify answers on this drive: "true", "false", "err"
    p_mount,            \* what Ext4Fs::mount answers on this drive: "ok", "err"
    p_pc,               \* "off", "new", then "created" (Some), "none" (None) or "panicked"
    part,               \* the Partition returned, or NoPart
    probed,             \* start LBAs handed to Ext4Fs::identify, in call order
    mounted,            \* start LBAs handed to Ext4Fs::mount, in call order
    a_op,               \* which `+` of Ext4RealBlkId is applied
    a_lhs,              \* the Ext4RealBlkId (u64)
    a_rhs,              \* the right operand, widened to u64
    a_checks,           \* build profile of the addition: overflow checks on or off
    a_res,              \* NoSum, Panic or [val |-> u64]
    v_x,                \* vesa_mode_setup: requested width (u16)
    v_y,                \* requested height (u16)
    v_modes,            \* the mode list the VBE controller reports, in order
    v_checks,           \* build profile of vesa_mode_setup: overflow checks on or off
    v_i,                \* modes of the list already looked at
    best_mode,          \* vesa_mode_setup's best_mode
    best_diff,          \* its best_diff (u32)
    best_bpp,           \* its best_bpp
    v_pc,               \* "off", "scan", "set" (mode set) or "panicked"
    a20_line,           \* the A20 gate is open
    bios_works,         \* int 0x15, ax=0x2401 opens the gate on this machine
    kb_delay,           \* io_delays until the keyboard controller opens the gate, or KbNever
    fastg_works,        \* bit 1 of port 0x92 opens the gate on this machine
    kb_pending,         \* io_delays left before the keyboard controller's write takes effect
    loops,              \* __a20_check's countdown
    a20_calls,          \* enabling methods invoked, in order
    a20_checks,         \* result of the check that followed each invoked method
    a20_pc              \* "off", "start", "bios", "kb", "kb_check", "fastg", "ok", "err"

extVars == <<overflow_checks, search_impl, feature_extents, uses_extent_tree, i_block, disk,
             pc, stack, extents, tree, log_count, reads, read_failed, bad_header_seen,
             count_over_seen, fs_readers, sb_readers, inode_readers, last_blk, last_res>>

partVars == <<p_args, p_identify, p_mount, p_pc, part, probed, mounted>>

arithVars == <<a_op, a_lhs, a_rhs, a_checks, a_res>>

vesaVars == <<v_x, v_y, v_modes, v_checks, v_i, best_mode, best_diff, best_bpp, v_pc>>

a20Vars == <<a20_line, bios_works, kb_delay, fastg_works, kb_pending, loops, a20_calls,
             a20_checks, a20_pc>>

auxVars == <<arithVars, vesaVars, a20Vars>>

vars == <<extVars, partVars, auxVars>>

(***************************************************************************)
(* Fixed-width unsigned arithmetic on 16-bit limbs                          *)
(***************************************************************************)

\* Number of values of a u16 (one limb).
U16Mod == 65536

\* u64::from(u32) / u32::from(u16): zero extension to n limbs.
Widen(x, n) == [i \in 1..n |-> IF i <= Len(x) THEN x[i] ELSE 0]

U32Of(n) == <<n % U16Mod, n \div U16Mod>>

U64Of(n) == <<n % U16Mod, n \div U16Mod, 0, 0>>

\* Unsigned comparison of two numbers of the same number of limbs.
LimbLt(a, b) ==
    \E i \in 1..Len(a) : a[i] < b[i] /\ \A j \in (i + 1)..Len(a) : a[j] = b[j]

LimbLe(a, b) == a = b \/ LimbLt(a, b)

\* a + b on n limbs: the wrapped sum and the carry out of the top limb.
LimbAdd(a, b) ==
    LET n == Len(a)
        c[i \in 0..n] == IF i = 0 THEN 0 ELSE (a[i] + b[i] + c[i - 1]) \div U16Mod
    IN  [sum |-> [i \in 1..n |-> (a[i] + b[i] + c[i - 1]) % U16Mod], carry |-> c[n]]

\* a - b on n limbs: the wrapped difference and the borrow out of the top limb.
LimbSub(a, b) ==
    LET n == Len(a)
        w[i \in 0..n] == IF i = 0 THEN 0 ELSE IF a[i] - b[i] - w[i - 1] < 0 THEN 1 ELSE 0
    IN  [diff |-> [i \in 1..n |-> (a[i] - b[i] - w[i - 1] + U16Mod) % U16Mod], borrow |-> w[n]]

\* The all-ones value on n limbs (u64::MAX for n = 4).
LimbMax(n) == [i \in 1..n |-> U16Mod - 1]

\* Outcomes: a panic, Option::None, or a record carrying the value.
Panic == [panic |-> TRUE]

None == [none |-> TRUE]

\* An unchecked `+` / `-`: a panic under overflow checks, else the wrapped value.
PlainAdd(a, b, checks) ==
    LET r == LimbAdd(a, b) IN IF r.carry = 1 /\ checks THEN Panic ELSE [val |-> r.sum]

PlainSub(a, b, checks) ==
    LET r == LimbSub(a, b) IN IF r.borrow = 1 /\ checks THEN Panic ELSE [val |-> r.diff]

\* u64::saturating_add
SaturatingAdd(a, b) ==
    LET r == LimbAdd(a, b) IN IF r.carry = 1 THEN LimbMax(Len(a)) ELSE r.sum

(***************************************************************************)
(* On-disk shapes                                                          *)
(***************************************************************************)

\* Ext4ExtentHeaderMagic::VALID_EXT4_MAGIC
VALID_EXT4_MAGIC == 62218

\* Ext4ExtentHeaderDepth::LEAF_DEPTH
LEAF_DEPTH == 0

\* Largest raw length of an initialized extent (Ext4ExtentLength::is_initialized).
INIT_MAX_LEN == 32768

\* Records that fit in the inode's 60-byte inline node after its 12-byte header.
InlineRecords == 4

\* Records that fit in a child block between its header and its 4-byte checksum tail
\* ((block_size - 12 - 4) / 12 in the code's layout, scaled down).
BlockRecords == 2

\* A 12-byte record of only zero bytes.
ZeroRecord == <<0, 0, 0, 0, 0, 0>>

\* ExtentBlkRawEntry::as_extent: the record's bytes read as an Extent.
as_extent(raw) ==
    [block |-> <<raw[1], raw[2]>>, len |-> raw[3], start_hi |-> raw[4],
     start_lo |-> <<raw[5], raw[6]>>]

\* ExtentBlkRawEntry::as_extent_idx: the same bytes read as an ExtentIdx.
as_extent_idx(raw) ==
    [block |-> <<raw[1], raw[2]>>, leaf_lo |-> <<raw[3], raw[4]>>, leaf_hi |-> raw[5],
     unused |-> raw[6]]

\* The bytes an Extent / ExtentIdx with these fields has on disk.
ExtentBytes(block, len, start) == <<block[1], block[2], len, start[3], start[1], start[2]>>

IdxBytes(block, leaf) == <<block[1], block[2], leaf[1], leaf[2], leaf[3], 0>>

\* Ext4ExtentPtrLo + Ext4ExtentPtrHi: lo | hi << 32
start_blk(ext) == <<ext.start_lo[1], ext.start_lo[2], ext.start_hi, 0>>

\* ExtentIdx::leaf: leaf_lo | leaf_hi << 32
leaf(idx) == <<idx.leaf_lo[1], idx.leaf_lo[2], idx.leaf_hi, 0>>

\* Ext4ExtentLength::is_initialized
is_initialized(len) == len <= INIT_MAX_LEN

\* Ext4ExtentLength::length
length(len) == IF is_initialized(len) THEN len ELSE len - INIT_MAX_LEN

\* ExtentBlock::get_header
get_header(blk) ==
    [magic |-> blk.magic, entries |-> blk.entries, max |-> blk.max, depth |-> blk.depth]

\* ExtentHeader::is_leaf
is_leaf(header) == header.depth = LEAF_DEPTH

\* ExtentBlock::get_entry_bytes, entry counted from 0: None past the header's count,
\* a panic when the slice runs past the block's bytes, else the record's bytes.
get_entry_bytes(blk, entry) ==
    IF entry >= get_header(blk).entries THEN None
    ELSE IF entry + 1 > Len(blk.recs) THEN Panic
    ELSE [some |-> blk.recs[entry + 1]]

\* Identity of the filesystem and inode that enter every block checksum.
ChksumSeed == <<17, 12, 48879>>

\* Range of the checksum values of the model.
CrcRange == 251

\* crc32c_calc over a byte string, here over the limbs of the seed and of the block
\* without its tail.
Crc32cCalc(words) ==
    LET acc[i \in 0..Len(words)] ==
            IF i = 0 THEN 1 ELSE (acc[i - 1] * 31 + words[i]) % CrcRange
    IN  acc[Len(words)]

\* The block's bytes except the last four.
BlkBody(blk) ==
    LET flat[i \in 0..Len(blk.recs)] ==
            IF i = 0 THEN <<blk.magic, blk.entries, blk.max, blk.depth>>
            ELSE flat[i - 1] \o blk.recs[i]
    IN  flat[Len(blk.recs)]

\* Mutant of validate_chksum: the checksum is taken over the block alone.
validate_chksum_unseeded(blk, seed) == Crc32cCalc(BlkBody(blk)) = blk.tail

\* ExtentBlock::validate_chksum (its error!() log is the caller's log_count step).
validate_chksum(blk, seed) == Crc32cCalc(seed \o BlkBody(blk)) = blk.tail

(***************************************************************************)
(* Lookup                                                                  *)
(***************************************************************************)

\* Extent::contains: block <= blk_id && block + len >= blk_id, the sum in u32.
contains(ext, blk_id, checks) ==
    IF ~LimbLe(Widen(ext.block, 4), blk_id) THEN [hit |-> FALSE]
    ELSE LET end == PlainAdd(ext.block, U32Of(ext.len), checks)
         IN  IF end = Panic THEN Panic ELSE [hit |-> LimbLe(blk_id, Widen(end.val, 4))]

\* The comparator closure handed to binary_search_by.
SearchCmp(ext, blk_id, checks) ==
    LET hit == contains(ext, blk_id, checks)
    IN  IF hit = Panic THEN "Panic"
        ELSE IF hit.hit THEN "Equal"
        ELSE IF LimbLt(blk_id, Widen(ext.block, 4)) THEN "Greater"
        ELSE "Less"

\* core::slice::binary_search_by, midpoint form (left/right/size, returns at the
\* first Equal probe). Result: [ok |-> index from 1], None or Panic.
RECURSIVE BisectSearch(_, _, _, _, _)
BisectSearch(exts, blk_id, checks, left, right) ==
    IF left >= right THEN None
    ELSE LET mid == left + (right - left) \div 2
             cmp == SearchCmp(exts[mid + 1], blk_id, checks)
         IN  IF cmp = "Panic" THEN Panic
             ELSE IF cmp = "Equal" THEN [ok |-> mid + 1]
             ELSE IF cmp = "Less" THEN BisectSearch(exts, blk_id, checks, mid + 1, right)
             ELSE BisectSearch(exts, blk_id, checks, left, mid)

\* core::slice::binary_search_by, branchless form (base/size, one final compare).
RECURSIVE BranchlessSearch(_, _, _, _, _)
BranchlessSearch(exts, blk_id, checks, base, size) ==
    IF size > 1
    THEN LET half == size \div 2
             mid == base + half
             cmp == SearchCmp(exts[mid + 1], blk_id, checks)
         IN  IF cmp = "Panic" THEN Panic
             ELSE BranchlessSearch(exts, blk_id, checks,
                                   IF cmp = "Greater" THEN base ELSE mid, size - half)
    ELSE LET cmp == SearchCmp(exts[base + 1], blk_id, checks)
         IN  IF cmp = "Panic" THEN Panic
             ELSE IF cmp = "Equal" THEN [ok |-> base + 1] ELSE None

binary_search_by(exts, blk_id, checks, impl) ==
    IF Len(exts) = 0 THEN None
    ELSE IF impl = "bisect" THEN BisectSearch(exts, blk_id, checks, 0, Len(exts))
    ELSE BranchlessSearch(exts, blk_id, checks, 0, Len(exts))

\* ExtentTree::get_exact_blk_mapping
get_exact_blk_mapping(exts, blk_id, checks, impl) ==
    LET found == binary_search_by(exts, blk_id, checks, impl)
    IN  IF found = None \/ found = Panic THEN found
        ELSE LET extent == exts[found.ok]
                 offset_in_extent == PlainSub(blk_id, Widen(extent.block, 4), checks)
             IN  IF offset_in_extent = Panic THEN Panic
                 ELSE LET phys == PlainAdd(start_blk(extent), offset_in_extent.val, checks)
                      IN  IF phys = Panic THEN Panic ELSE [some |-> phys.val]

\* derive(Ord) on Extent: lexicographic on (block, len, start_hi, start_lo).
ExtentLt(a, b) ==
    \/ LimbLt(a.block, b.block)
    \/ /\ a.block = b.block
       /\ \/ a.len < b.len
          \/ /\ a.len = b.len
             /\ \/ a.start_hi < b.start_hi
                \/ a.start_hi = b.start_hi /\ LimbLt(a.start_lo, b.start_lo)

\* Mutant of sort_unstable: the list is returned in traversal order.
sort_unstable_skipped(s) == s

\* extents.sort_unstable(): the order is total on whole records, so the result is
\* the one ascending arrangement (built here by insertion).
RECURSIVE sort_unstable(_)
sort_unstable(s) ==
    IF Len(s) <= 1 THEN s
    ELSE LET rest == sort_unstable(Tail(s))
             x == Head(s)
             k == Cardinality({i \in 1..Len(rest) : ExtentLt(rest[i], x)})
         IN  SubSeq(rest, 1, k) \o <<x>> \o SubSeq(rest, k + 1, Len(rest))

(***************************************************************************)
(* Inputs: the disk contents, the inode and the build                      *)
(***************************************************************************)

\* Longest leaf-record list drawn for the inline node.
MaxInlineExtents == 3

\* Most index records drawn for the inline node.
MaxInlineIdx == 2

\* Deepest nesting of traverse_extent_layer calls the model follows.
MaxStack == 8

\* Depth limit of an extent tree (Ext4ExtentHeaderDepth::set_depth).
MAX_TREE_DEPTH == 5

IoFail == [io_error |-> TRUE]

SeqsUpTo(S, n) == UNION {[1..k -> S] : k \in 0..n}

\* rs followed by zero records up to n records (the unused bytes of a node).
PadRecs(rs, n) == [i \in 1..n |-> IF i <= Len(rs) THEN rs[i] ELSE ZeroRecord]

\* Leaf records: three adjacent runs, the S1 extent (which overlaps the first two),
\* the uninitialized S2 extent, and one that ends exactly at logical block 2^32.
LeafPool ==
    { ExtentBytes(U32Of(0), 4, U64Of(10000)),
      ExtentBytes(U32Of(4), 4, U64Of(20000)),
      ExtentBytes(U32Of(8), 4, U64Of(30000)),
      ExtentBytes(U32Of(0), 8, U64Of(1000)),
      ExtentBytes(U32Of(0), INIT_MAX_LEN + 4, U64Of(2000)),
      ExtentBytes(<<U16Mod - 4, U16Mod - 1>>, 4, <<0, 0, 1, 0>>) }

\* Blocks of the device that hold extent nodes, and one past the device's end.
DiskBlocks == {U64Of(5000), U64Of(5001)}

IdxPool ==
    { IdxBytes(U32Of(0), U64Of(5000)),
      IdxBytes(U32Of(4), U64Of(5001)),
      IdxBytes(U32Of(8), U64Of(5002)) }

\* The magic 0x1234 of a header that is no extent header.
BadMagic == 1 * 4096 + 2 * 256 + 3 * 16 + 4

Node(magic, entries, max, depth, recs, tail) ==
    [magic |-> magic, entries |-> entries, max |-> max, depth |-> depth,
     recs |-> recs, tail |-> tail]

\* A child block whose tail is the checksum of its body (good) or zeroed.
ChildBlock(magic, entries, depth, rs, good) ==
    LET body == Node(magic, entries, BlockRecords, depth, PadRecs(rs, BlockRecords), 0)
    IN  [body EXCEPT !.tail = IF good THEN Crc32cCalc(ChksumSeed \o BlkBody(body)) ELSE 0]

\* The inline node as a leaf: up to MaxInlineExtents records; or a bad magic; or a
\* count above the header's max; or a count past the node's bytes.
InlineLeaves ==
    { Node(VALID_EXT4_MAGIC, Len(rs), InlineRecords, LEAF_DEPTH, PadRecs(rs, InlineRecords), 0) :
        rs \in SeqsUpTo(LeafPool, MaxInlineExtents) }
    \cup
    { Node(h[1], Len(rs), h[2], LEAF_DEPTH, PadRecs(rs, InlineRecords), 0) :
        h \in {<<BadMagic, InlineRecords>>, <<VALID_EXT4_MAGIC, 0>>},
        rs \in [1..1 -> LeafPool] }
    \cup
    { Node(VALID_EXT4_MAGIC, InlineRecords + 1, InlineRecords, LEAF_DEPTH,
           PadRecs(<<>>, InlineRecords), 0) }

\* The inline node as an index node of depth 1 or past the depth limit.
InlineIndexes ==
    { Node(VALID_EXT4_MAGIC, Len(rs), InlineRecords, 1, PadRecs(rs, InlineRecords), 0) :
        rs \in SeqsUpTo(IdxPool, MaxInlineIdx) }
    \cup
    { Node(h[1], Len(rs), InlineRecords, h[2], PadRecs(rs, InlineRecords), 0) :
        h \in {<<VALID_EXT4_MAGIC, MAX_TREE_DEPTH + 1>>, <<BadMagic, 1>>},
        rs \in [1..1 -> IdxPool] }
    \cup
    { Node(VALID_EXT4_MAGIC, InlineRecords + 1, InlineRecords, 1,
           [i \in 1..InlineRecords |-> IdxBytes(U32Of(0), U64Of(5001))], 0) }

\* What block 5000 may hold: a failing read, the first S3 leaf with a good or a
\* zeroed tail, a leaf whose count runs past the block, an index node that points
\* at itself, or an index node over block 5001.
Children5000 ==
    { IoFail,
      ChildBlock(VALID_EXT4_MAGIC, 1, LEAF_DEPTH, <<ExtentBytes(U32Of(0), 4, U64Of(10000))>>, TRUE),
      ChildBlock(VALID_EXT4_MAGIC, 1, LEAF_DEPTH, <<ExtentBytes(U32Of(0), 4, U64Of(10000))>>, FALSE),
      ChildBlock(VALID_EXT4_MAGIC, BlockRecords + 1, LEAF_DEPTH, <<>>, TRUE),
      ChildBlock(VALID_EXT4_MAGIC, 1, 1, <<IdxBytes(U32Of(0), U64Of(5000))>>, TRUE),
      ChildBlock(VALID_EXT4_MAGIC, 2, 1,
                 <<IdxBytes(U32Of(0), U64Of(5002)), IdxBytes(U32Of(4), U64Of(5001))>>, TRUE) }

\* What block 5001 may hold: a failing read, the second S3 leaf with a good or a
\* zeroed tail, a two-extent leaf, a leaf with a bad magic, or a header past the
\* depth limit.
Children5001 ==
    { IoFail,
      ChildBlock(VALID_EXT4_MAGIC, 1, LEAF_DEPTH, <<ExtentBytes(U32Of(4), 4, U64Of(20000))>>, TRUE),
      ChildBlock(VALID_EXT4_MAGIC, 1, LEAF_DEPTH, <<ExtentBytes(U32Of(4), 4, U64Of(20000))>>, FALSE),
      ChildBlock(VALID_EXT4_MAGIC, 2, LEAF_DEPTH,
                 <<ExtentBytes(U32Of(8), 4, U64Of(30000)), ExtentBytes(U32Of(4), 4, U64Of(20000))>>, TRUE),
      ChildBlock(BadMagic, 1, LEAF_DEPTH, <<ExtentBytes(U32Of(8), 4, U64Of(30000))>>, TRUE),
      ChildBlock(VALID_EXT4_MAGIC, 0, MAX_TREE_DEPTH + 1, <<>>, FALSE) }

Disks == { [b \in DiskBlocks |-> IF b = U64Of(5000) THEN c[1] ELSE c[2]] :
             c \in Children5000 \X Children5001 }

\* The disk when the tree lives in the inode alone.
PlainDisk == [b \in DiskBlocks |-> IoFail]

\* Logical blocks looked up.
BlkPool ==
    { U64Of(0), U64Of(3), U64Of(4), U64Of(5), U64Of(7), U64Of(8), U64Of(9), U64Of(12),
      <<U16Mod - 4, U16Mod - 1, 0, 0>>, <<U16Mod - 1, U16Mod - 1, 0, 0>>, <<0, 0, 1, 0>> }

NoLookup == [no_lookup |-> TRUE]

ExtentInit ==
    /\ overflow_checks \in BOOLEAN
    /\ search_impl \in {"bisect", "branchless"}
    /\ \/ /\ feature_extents = TRUE /\ uses_extent_tree = TRUE
          /\ \/ i_block \in InlineLeaves /\ disk = PlainDisk
             \/ i_block \in InlineIndexes /\ disk \in Disks
       \/ /\ feature_extents \in BOOLEAN /\ uses_extent_tree \in BOOLEAN
          /\ ~(feature_extents /\ uses_extent_tree)
          /\ i_block \in {n \in InlineLeaves : n.entries = 1 /\ n.magic = VALID_EXT4_MAGIC}
          /\ disk = PlainDisk
    /\ pc = "idle"
    /\ stack = <<>>
    /\ extents = <<>>
    /\ tree = <<>>
    /\ log_count = 0
    /\ reads = 0
    /\ read_failed = FALSE
    /\ bad_header_seen = FALSE
    /\ count_over_seen = FALSE
    /\ fs_readers = 0
    /\ sb_readers = 0
    /\ inode_readers = 0
    /\ last_blk = U64Of(0)
    /\ last_res = NoLookup

(***************************************************************************)
(* ExtentTree::load_extent_tree, one step per traverse_extent_layer event  *)
(***************************************************************************)

Frame(blk) == [blk |-> blk, entry |-> 0]

Top == stack[Len(stack)]

Pop(s) == SubSeq(s, 1, Len(s) - 1)

\* A header the format forbids: wrong magic or a depth past the limit.
BadHeader(blk) == blk.magic # VALID_EXT4_MAGIC \/ blk.depth > MAX_TREE_DEPTH

\* A header whose count is above its max or above the records its node can hold.
CountOver(blk) == blk.entries > blk.max \/ blk.entries > Len(blk.recs)

\* fs.read_blk_from_device: Ok with the block's bytes, or Err.
read_blk_from_device(d, blk_id) ==
    IF blk_id \in DOMAIN d /\ d[blk_id] # IoFail THEN [ok |-> d[blk_id]] ELSE IoFail

\* The records a leaf node hands to extents.push, in order.
LeafExtents(blk) == [i \in 1..get_header(blk).entries |-> as_extent(blk.recs[i])]

\* A return that leaves the layer's superblock read guard behind.
ReturnKeepingGuard ==
    /\ stack' = Pop(stack)
    /\ sb_readers' = sb_readers

\* What traverse_extent_layer does when its call returns: the frame and its
\* superblock read guard go away.
ReturnFromLayer ==
    /\ stack' = Pop(stack)
    /\ sb_readers' = sb_readers - 1

\* load_extent_tree up to its call of traverse_extent_layer on the inline node:
\* the three read guards, the feature gate, drop(sb).
LoadBegin ==
    /\ pc = "idle"
    /\ IF ~feature_extents \/ ~uses_extent_tree
       THEN /\ pc' = "not_applicable"
            /\ UNCHANGED <<stack, sb_readers, fs_readers, inode_readers, bad_header_seen,
                           count_over_seen>>
       ELSE /\ pc' = "traverse"
            /\ stack' = <<Frame(i_block)>>
            /\ fs_readers' = fs_readers + 1
            /\ inode_readers' = inode_readers + 1
            /\ sb_readers' = sb_readers + 1
            /\ bad_header_seen' = BadHeader(i_block)
            /\ count_over_seen' = CountOver(i_block)
    /\ extents' = <<>>
    /\ UNCHANGED <<overflow_checks, search_impl, feature_extents, uses_extent_tree, i_block,
                   disk, tree, log_count, reads, read_failed, last_blk, last_res>>
    /\ UNCHANGED <<partVars, auxVars>>

\* traverse_extent_layer on a leaf node: every record is pushed, or the slice of a
\* record past the node's bytes panics.
TraverseLeaf ==
    /\ pc = "traverse" /\ stack # <<>>
    /\ is_leaf(get_header(Top.blk))
    /\ IF \E e \in 0..(get_header(Top.blk).entries - 1) : get_entry_bytes(Top.blk, e) = Panic
       THEN /\ pc' = "panicked"
            /\ UNCHANGED <<stack, sb_readers, extents>>
       ELSE /\ extents' = extents \o LeafExtents(Top.blk)
            /\ ReturnFromLayer
            /\ UNCHANGED pc
    /\ UNCHANGED <<overflow_checks, search_impl, feature_extents, uses_extent_tree, i_block,
                   disk, tree, log_count, reads, read_failed, bad_header_seen,
                   count_over_seen, fs_readers, inode_readers, last_blk, last_res>>
    /\ UNCHANGED <<partVars, auxVars>>

\* One turn of the index loop: the entry's child block is read, its checksum is
\* compared (a mismatch is logged, the result dropped) and the layer below is
\* entered; a failed read leaves the current layer with None.
TraverseIndexEntry ==
    /\ pc = "traverse" /\ stack # <<>>
    /\ ~is_leaf(get_header(Top.blk))
    /\ Top.entry < get_header(Top.blk).entries
    /\ LET raw == get_entry_bytes(Top.blk, Top.entry)
       IN  IF raw = Panic
           THEN /\ pc' = "panicked"
                /\ UNCHANGED <<stack, sb_readers, log_count, reads, read_failed,
                               bad_header_seen, count_over_seen>>
           ELSE LET got == read_blk_from_device(disk, leaf(as_extent_idx(raw.some)))
                IN  /\ reads' = reads + 1
                    /\ UNCHANGED pc
                    /\ IF got = IoFail
                       THEN /\ read_failed' = TRUE
                            /\ ReturnFromLayer
                            /\ UNCHANGED <<log_count, bad_header_seen, count_over_seen>>
                       ELSE /\ Len(stack) < MaxStack
                            /\ log_count' = IF validate_chksum(got.ok, ChksumSeed)
                                            THEN log_count ELSE log_count + 1
                            /\ stack' = [stack EXCEPT ![Len(stack)].entry = @ + 1]
                                            \o <<Frame(got.ok)>>
                            /\ sb_readers' = sb_readers + 1
                            /\ bad_header_seen' = (bad_header_seen \/ BadHeader(got.ok))
                            /\ count_over_seen' = (count_over_seen \/ CountOver(got.ok))
                            /\ UNCHANGED read_failed
    /\ UNCHANGED <<overflow_checks, search_impl, feature_extents, uses_extent_tree, i_block,
                   disk, extents, tree, fs_readers, inode_readers, last_blk, last_res>>
    /\ UNCHANGED <<partVars, auxVars>>

\* The index loop is over: the layer returns Some(()).
TraverseIndexDone ==
    /\ pc = "traverse" /\ stack # <<>>
    /\ ~is_leaf(get_header(Top.blk))
    /\ Top.entry >= get_header(Top.blk).entries
    /\ ReturnFromLayer
    /\ UNCHANGED <<overflow_checks, search_impl, feature_extents, uses_extent_tree, i_block,
                   disk, pc, extents, tree, log_count, reads, read_failed, bad_header_seen,
                   count_over_seen, fs_readers, inode_readers, last_blk, last_res>>
    /\ UNCHANGED <<partVars, auxVars>>

\* load_extent_tree after the traversal returned (its result is not looked at):
\* sort, drop the guards, return Some(tree).
LoadFinish ==
    /\ pc = "traverse" /\ stack = <<>>
    /\ tree' = sort_unstable(extents)
    /\ pc' = "loaded"
    /\ fs_readers' = fs_readers - 1
    /\ inode_readers' = inode_readers - 1
    /\ UNCHANGED <<overflow_checks, search_impl, feature_extents, uses_extent_tree, i_block,
                   disk, stack, extents, log_count, reads, read_failed, bad_header_seen,
                   count_over_seen, sb_readers, last_blk, last_res>>
    /\ UNCHANGED <<partVars, auxVars>>

\* ExtentTree::get_exact_blk_mapping on the loaded tree. It takes &self and changes
\* nothing, so a behaviour follows one call of it.
Lookup ==
    /\ pc = "loaded" /\ last_res = NoLookup
    /\ \E b \in BlkPool :
        LET res == get_exact_blk_mapping(tree, b, overflow_checks, search_impl)
        IN  /\ last_blk' = b
            /\ last_res' = res
    /\ UNCHANGED <<overflow_checks, search_impl, feature_extents, uses_extent_tree, i_block,
                   disk, pc, stack, extents, tree, log_count, reads, read_failed,
                   bad_header_seen, count_over_seen, fs_readers, sb_readers, inode_readers>>
    /\ UNCHANGED <<partVars, auxVars>>

(***************************************************************************)
(* Partition::from_metadata                                                *)
(***************************************************************************)

\* MBRPartitionEntry::partition_type: the partition type a type byte stands for
\* (0x07 is shared by OS2IFS, NTFS and EXFAT; the first one is reported).
partition_type(byte) ==
    CASE byte = 0 -> "Empty"
      [] byte = 1 -> "DOSFat12"
      [] byte = 2 -> "XenixRoot"
      [] byte = 3 -> "XenixUsr"
      [] byte = 4 -> "DOS3Fat16"
      [] byte = 5 -> "Extended"
      [] byte = 6 -> "DOS331Fat16"
      [] byte = 7 -> "OS2IFS"
      [] byte = 11 -> "Fat32"
      [] byte = 12 -> "Fat32LBA"
      [] byte = 14 -> "DOSFat16LBA"
      [] byte = 15 -> "ExtendedLBA"
      [] byte = 130 -> "LinuxSwap"
      [] byte = 131 -> "LinuxNative"
      [] byte = 133 -> "LinuxExtended"
      [] byte = 142 -> "LinuxLVM"
      [] byte = 159 -> "BSDI"
      [] byte = 166 -> "OpenBSD"
      [] byte = 168 -> "MacOSX"
      [] byte = 171 -> "MacOSXBoot"
      [] byte = 175 -> "MacOSXHFS"
      [] byte = 232 -> "LUKS"
      [] byte = 238 -> "GPT"
      [] OTHER -> "Unknown"

\* The type bytes the MBR format recognizes, and one it does not.
RecognizedTypeBytes ==
    {0, 1, 2, 3, 4, 5, 6, 7, 11, 12, 14, 15, 130, 131, 133, 142, 159, 166, 168, 171, 175,
     232, 238}

TypeBytes == RecognizedTypeBytes \cup {66}

\* Partition types whose match arm is PartFS::Unknown.
SkippedTypes == {"Empty", "GPT", "Unknown"}

NoPart == [no_partition |-> TRUE]

\* PartFS::Unknown and PartFS::Ext4(handle)
Unknown == [fs |-> "Unknown"]

Ext4(drive_id, part_id, lba) ==
    [fs |-> "Ext4", drive_id |-> drive_id, part_id |-> part_id, start_lba |-> lba]

\* An arm that mounts without asking Ext4Fs::identify first.
mount_unprobed(args, lba, identify, mount) ==
    IF mount = "err"
    THEN [out |-> "none", fs |-> Unknown, probed |-> <<>>, mounted |-> <<lba>>]
    ELSE [out |-> "fs", fs |-> Ext4(args.drive_id, args.part_id, lba),
          probed |-> <<>>, mounted |-> <<lba>>]

\* The identify-then-mount arm, for a partition that starts at lba: how the arm
\* ends ("fs": with a filesystem; "none": a `?` returns None from from_metadata), the
\* filesystem and the calls made.
identify_then_mount(args, lba, identify, mount) ==
    IF identify = "err"
    THEN [out |-> "none", fs |-> Unknown, probed |-> <<lba>>, mounted |-> <<>>]
    ELSE IF identify = "true"
    THEN IF mount = "err"
         THEN [out |-> "none", fs |-> Unknown, probed |-> <<lba>>, mounted |-> <<lba>>]
         ELSE [out |-> "fs", fs |-> Ext4(args.drive_id, args.part_id, lba),
               probed |-> <<lba>>, mounted |-> <<lba>>]
    ELSE [out |-> "fs", fs |-> Unknown, probed |-> <<lba>>, mounted |-> <<>>]

\* A dispatch that probes every entry, whatever its type.
match_metadata_probe_all(args, identify, mount) ==
    identify_then_mount(args,
                        IF args.metadata.kind = "MBR"
                        THEN Widen(args.metadata.start_lba, 4)
                        ELSE args.metadata.start_lba,
                        identify, mount)

\* The `match metadata` of from_metadata; out is "todo" where the arm is todo!().
match_metadata(args, identify, mount) ==
    IF args.metadata.kind = "MBR"
    THEN LET type == partition_type(args.metadata.type)
         IN  IF type \in SkippedTypes
             THEN [out |-> "fs", fs |-> Unknown, probed |-> <<>>, mounted |-> <<>>]
             ELSE IF type = "LinuxNative"
             THEN identify_then_mount(args, Widen(args.metadata.start_lba, 4), identify, mount)
             ELSE [out |-> "todo", fs |-> Unknown, probed |-> <<>>, mounted |-> <<>>]
    ELSE identify_then_mount(args, args.metadata.start_lba, identify, mount)

\* Partition::from_metadata
FromMetadata ==
    /\ p_pc = "new"
    /\ LET m == match_metadata(p_args, p_identify, p_mount)
       IN  /\ probed' = probed \o m.probed
           /\ mounted' = mounted \o m.mounted
           /\ IF m.out = "todo" THEN p_pc' = "panicked" /\ part' = NoPart
              ELSE IF m.out = "none" THEN p_pc' = "none" /\ part' = NoPart
              ELSE /\ p_pc' = "created"
                   /\ part' = [id |-> p_args.part_id, drive_id |-> p_args.drive_id,
                               metadata |-> p_args.metadata, fs |-> m.fs]
    /\ UNCHANGED <<p_args, p_identify, p_mount>>
    /\ UNCHANGED <<extVars, auxVars>>

\* Partition::start_lba
start_lba(p) ==
    IF p.metadata.kind = "MBR" THEN Widen(p.metadata.start_lba, 4) ELSE p.metadata.start_lba

\* Partition table entries handed to from_metadata.
Metadatas ==
    { [kind |-> "MBR", type |-> t, start_lba |-> l] :
        t \in TypeBytes, l \in {U32Of(2048), U32Of(100000)} }
    \cup
    { [kind |-> "GPT", start_lba |-> l] : l \in {U64Of(2048), <<0, 0, 1, 0>>} }

PartitionInit ==
    /\ p_args \in { [part_id |-> i, drive_id |-> 0, metadata |-> m] :
                      i \in 0..1, m \in Metadatas }
    /\ p_identify \in {"true", "false", "err"}
    /\ p_mount \in {"ok", "err"}
    /\ p_pc = "new"
    /\ part = NoPart
    /\ probed = <<>>
    /\ mounted = <<>>

\* Partition::metadata_mut: the caller stores a table entry through the `&mut
\* PartitionMetadata` it is handed.
MetadataMut ==
    /\ p_pc = "created"
    /\ \E m \in Metadatas : part' = [part EXCEPT !.metadata = m]
    /\ UNCHANGED <<p_args, p_identify, p_mount, p_pc, probed, mounted>>
    /\ UNCHANGED <<extVars, auxVars>>

\* A caller assigns the public field `fs` of a partition it owns.
AssignFs ==
    /\ p_pc = "created"
    /\ part' = [part EXCEPT !.fs = Unknown]
    /\ UNCHANGED <<p_args, p_identify, p_mount, p_pc, probed, mounted>>
    /\ UNCHANGED <<extVars, auxVars>>

\* The partition dispatch is not running.
PartitionOff ==
    /\ p_args = [part_id |-> 0, drive_id |-> 0,
                 metadata |-> [kind |-> "GPT", start_lba |-> U64Of(2048)]]
    /\ p_identify = "false"
    /\ p_mount = "err"
    /\ p_pc = "off"
    /\ part = NoPart
    /\ probed = <<>>
    /\ mounted = <<>>

\* No extent tree is being loaded.
ExtentOff ==
    /\ overflow_checks = FALSE
    /\ search_impl = "bisect"
    /\ feature_extents = FALSE
    /\ uses_extent_tree = FALSE
    /\ i_block = Node(VALID_EXT4_MAGIC, 0, InlineRecords, LEAF_DEPTH,
                      PadRecs(<<>>, InlineRecords), 0)
    /\ disk = PlainDisk
    /\ pc = "off"
    /\ stack = <<>>
    /\ extents = <<>>
    /\ tree = <<>>
    /\ log_count = 0
    /\ reads = 0
    /\ read_failed = FALSE
    /\ bad_header_seen = FALSE
    /\ count_over_seen = FALSE
    /\ fs_readers = 0
    /\ sb_readers = 0
    /\ inode_readers = 0
    /\ last_blk = U64Of(0)
    /\ last_res = NoLookup

(***************************************************************************)
(* The `+` operators of Ext4RealBlkId                                      *)
(***************************************************************************)

NoSum == [no_sum |-> TRUE]

\* Add<Ext4BlkCount> for Ext4RealBlkId
add_blk_count(lhs, rhs) == [val |-> SaturatingAdd(lhs, rhs)]

\* Add<u64> for Ext4RealBlkId
add_u64(lhs, rhs) == [val |-> SaturatingAdd(lhs, rhs)]

\* Add<Ext4ExtentLength> for Ext4RealBlkId: self.0 + u64::from(rhs.0)
add_extent_length(lhs, rhs, checks) == PlainAdd(lhs, Widen(<<rhs>>, 4), checks)

\* Add<Ext4InodeRelBlkId> for Ext4RealBlkId: self.0 + rhs.0
add_inode_rel_blk_id(lhs, rhs, checks) == PlainAdd(lhs, rhs, checks)

\* Left operands: small, the largest 48-bit block id, the two largest u64.
ArithLhs ==
    { U64Of(0), U64Of(5000), <<U16Mod - 1, U16Mod - 1, U16Mod - 1, 0>>,
      <<U16Mod - 2, U16Mod - 1, U16Mod - 1, U16Mod - 1>>, LimbMax(4) }

ArithRhs == { U64Of(0), U64Of(1), U64Of(U16Mod - 1), <<0, 0, 1, 0>>, LimbMax(4) }

ArithInit ==
    /\ a_op = "none"
    /\ a_lhs \in ArithLhs
    /\ a_rhs \in ArithRhs
    /\ a_checks \in BOOLEAN
    /\ a_res = NoSum

ArithOff ==
    /\ a_op = "off"
    /\ a_lhs = U64Of(0)
    /\ a_rhs = U64Of(0)
    /\ a_checks = FALSE
    /\ a_res = NoSum

AddBlkCount ==
    /\ a_op = "none"
    /\ a_op' = "Ext4BlkCount"
    /\ a_res' = add_blk_count(a_lhs, a_rhs)
    /\ UNCHANGED <<a_lhs, a_rhs, a_checks>>
    /\ UNCHANGED <<extVars, partVars, vesaVars, a20Vars>>

AddU64 ==
    /\ a_op = "none"
    /\ a_op' = "u64"
    /\ a_res' = add_u64(a_lhs, a_rhs)
    /\ UNCHANGED <<a_lhs, a_rhs, a_checks>>
    /\ UNCHANGED <<extVars, partVars, vesaVars, a20Vars>>

\* The right operand is an Ext4ExtentLength, a u16.
AddExtentLength ==
    /\ a_op = "none"
    /\ a_rhs = Widen(<<a_rhs[1]>>, 4)
    /\ a_op' = "Ext4ExtentLength"
    /\ a_res' = add_extent_length(a_lhs, a_rhs[1], a_checks)
    /\ UNCHANGED <<a_lhs, a_rhs, a_checks>>
    /\ UNCHANGED <<extVars, partVars, vesaVars, a20Vars>>

AddInodeRelBlkId ==
    /\ a_op = "none"
    /\ a_op' = "Ext4InodeRelBlkId"
    /\ a_res' = add_inode_rel_blk_id(a_lhs, a_rhs, a_checks)
    /\ UNCHANGED <<a_lhs, a_rhs, a_checks>>
    /\ UNCHANGED <<extVars, partVars, vesaVars, a20Vars>>

(***************************************************************************)
(* vesa_mode_setup                                                         *)
(***************************************************************************)

\* Longest mode list the controller reports.
MaxModes == 3

\* Bit 14 of a mode number: use the linear framebuffer.
LINEAR_FB_BIT == 16384

\* d * d for a 16-bit d, as a u32.
Sq16(d) ==
    LET a == d \div 256
        b == d % 256
        low == 2 * a * b * 256 + b * b
    IN  <<low % U16Mod, a * a + low \div U16Mod>>

\* The low 16 bits of x * y, for 16-bit x and y.
MulLow16(x, y) == ((x % 256) * y + (((x \div 256) * y) % 256) * 256) % U16Mod

\* u32::pow(2): the square; where it does not fit, a panic under overflow checks
\* and the low 32 bits otherwise.
pow2(v, checks) ==
    IF v[2] = 0 THEN [val |-> Sq16(v[1])]
    ELSE IF checks THEN Panic
    ELSE [val |-> <<Sq16(v[1])[1],
                    (Sq16(v[1])[2] + 2 * MulLow16(v[1], v[2])) % U16Mod>>]

\* (side as u32 - wanted as u32).pow(2)
side_diff(side, wanted, checks) ==
    LET d == PlainSub(U32Of(side), U32Of(wanted), checks)
    IN  IF d = Panic THEN Panic ELSE pow2(d.val, checks)

\* px_diff of vesa_mode_setup: Panic, or [val |-> u32].
px_diff(mode_info, x, y, checks) ==
    LET dw == side_diff(mode_info.width, x, checks)
        dh == side_diff(mode_info.height, y, checks)
    IN  IF dw = Panic \/ dh = Panic THEN Panic ELSE PlainAdd(dw.val, dh.val, checks)

\* The two tests a mode has to pass before its distance is computed.
passes_filters(mode_info) ==
    /\ mode_info.linear /\ mode_info.graphic
    /\ mode_info.memory_model \in {"PackedPixel", "DirectColor"}

\* best_mode |= 0x4000
set_linear_bit(mode) ==
    IF (mode \div LINEAR_FB_BIT) % 2 = 1 THEN mode ELSE mode + LINEAR_FB_BIT

ModeInfo(mode, queryable, linear, graphic, memory_model, width, height, bpp) ==
    [mode |-> mode, queryable |-> queryable, linear |-> linear, graphic |-> graphic,
     memory_model |-> memory_model, width |-> width, height |-> height,
     bits_per_pixel |-> bpp]

\* Modes a controller may report: 640x480x32, 800x600 at 16 and at 32 bits, a mode
\* without linear framebuffer, a planar mode, a very wide mode, and a mode whose
\* information block cannot be read.
ModePool ==
    { ModeInfo(257, TRUE, TRUE, TRUE, "DirectColor", 640, 480, 32),
      ModeInfo(259, TRUE, TRUE, TRUE, "PackedPixel", 800, 600, 16),
      ModeInfo(277, TRUE, TRUE, TRUE, "DirectColor", 800, 600, 32),
      ModeInfo(280, TRUE, FALSE, TRUE, "DirectColor", 1024, 768, 32),
      ModeInfo(283, TRUE, TRUE, TRUE, "Planar", 1920, 1080, 4),
      ModeInfo(288, TRUE, TRUE, TRUE, "DirectColor", U16Mod - 1, 363, 32),
      ModeInfo(511, FALSE, TRUE, TRUE, "DirectColor", 720, 540, 32) }

\* Requested sizes (x, y).
Requests == { <<800, 600>>, <<1920, 1080>>, <<720, 540>>, <<0, 0>> }

VesaInit ==
    /\ \E r \in Requests : v_x = r[1] /\ v_y = r[2]
    /\ v_modes \in SeqsUpTo(ModePool, MaxModes)
    /\ v_checks \in BOOLEAN
    /\ v_i = 0
    /\ best_mode = 1
    /\ best_diff = LimbMax(2)
    /\ best_bpp = 0
    /\ v_pc = "scan"

\* One turn of the loop over the reported modes.
VesaScanMode ==
    /\ v_pc = "scan" /\ v_i < Len(v_modes)
    /\ v_i' = v_i + 1
    /\ LET mode_info == v_modes[v_i + 1]
           d == px_diff(mode_info, v_x, v_y, v_checks)
       IN  IF ~mode_info.queryable \/ ~passes_filters(mode_info)
           THEN UNCHANGED <<best_mode, best_diff, best_bpp, v_pc>>
           ELSE IF d = Panic
           THEN v_pc' = "panicked" /\ UNCHANGED <<best_mode, best_diff, best_bpp>>
           ELSE IF \/ LimbLt(d.val, best_diff)
                   \/ (d.val = best_diff /\ mode_info.bits_per_pixel > best_bpp)
           THEN /\ best_mode' = mode_info.mode
                /\ best_diff' = d.val
                /\ best_bpp' = mode_info.bits_per_pixel
                /\ UNCHANGED v_pc
           ELSE UNCHANGED <<best_mode, best_diff, best_bpp, v_pc>>
    /\ UNCHANGED <<v_x, v_y, v_modes, v_checks>>
    /\ UNCHANGED <<extVars, partVars, arithVars, a20Vars>>

\* After the loop: bit 14 is set in best_mode and the mode is handed to
\* real_set_vesa_mode.
VesaSetMode ==
    /\ v_pc = "scan" /\ v_i = Len(v_modes)
    /\ best_mode' = set_linear_bit(best_mode)
    /\ v_pc' = "set"
    /\ UNCHANGED <<v_x, v_y, v_modes, v_checks, v_i, best_diff, best_bpp>>
    /\ UNCHANGED <<extVars, partVars, arithVars, a20Vars>>

\* vesa_mode_setup is not running.
VesaOff ==
    /\ v_x = 0 /\ v_y = 0
    /\ v_modes = <<>>
    /\ v_checks = FALSE
    /\ v_i = 0
    /\ best_mode = 1
    /\ best_diff = LimbMax(2)
    /\ best_bpp = 0
    /\ v_pc = "off"

(***************************************************************************)
(* enable_a20                                                              *)
(***************************************************************************)

\* Checks __a20_check makes before it gives up.
A20_KTEST_LOOPS == 32

\* A keyboard controller that does not open the gate while anyone waits for it.
KbNever == A20_KTEST_LOOPS + 1

Methods == <<"bios", "kb", "fastg">>

\* __fast_a20_check: the byte written through FFFF:0510 shows up at 0000:0500
\* exactly when the gate is closed.
fast_a20_check(line) == line

\* A method that is invoked whatever the method before it returned.
or_always(ok, next) == next

\* Result::or_else: the next method runs only after an Err.
or_else(ok, next) == IF ok THEN "ok" ELSE next

A20Init ==
    /\ a20_line \in BOOLEAN
    /\ bios_works \in BOOLEAN
    /\ kb_delay \in {0, 1, A20_KTEST_LOOPS - 1, A20_KTEST_LOOPS, KbNever}
    /\ fastg_works \in BOOLEAN
    /\ kb_pending = KbNever
    /\ loops = 0
    /\ a20_calls = <<>>
    /\ a20_checks = <<>>
    /\ a20_pc = "start"

\* enable_a20's first check.
A20InitialCheck ==
    /\ a20_pc = "start"
    /\ a20_checks' = Append(a20_checks, fast_a20_check(a20_line))
    /\ a20_pc' = IF fast_a20_check(a20_line) THEN "ok" ELSE "bios"
    /\ UNCHANGED <<a20_line, bios_works, kb_delay, fastg_works, kb_pending, loops, a20_calls>>
    /\ UNCHANGED <<extVars, partVars, arithVars, vesaVars>>

\* __bios_enable_a20: int 0x15 with ax = 0x2401, then one check.
BiosEnableA20 ==
    /\ a20_pc = "bios"
    /\ a20_calls' = Append(a20_calls, "bios")
    /\ a20_line' = (a20_line \/ bios_works)
    /\ a20_checks' = Append(a20_checks, fast_a20_check(a20_line'))
    /\ a20_pc' = or_else(fast_a20_check(a20_line'), "kb")
    /\ UNCHANGED <<bios_works, kb_delay, fastg_works, kb_pending, loops>>
    /\ UNCHANGED <<extVars, partVars, arithVars, vesaVars>>

\* __kb_enable_a20 up to its call of __a20_check: the command sequence that sets
\* bit 1 of the controller's output port.
KbEnableA20 ==
    /\ a20_pc = "kb"
    /\ a20_calls' = Append(a20_calls, "kb")
    /\ kb_pending' = kb_delay
    /\ a20_line' = (a20_line \/ kb_delay = 0)
    /\ loops' = A20_KTEST_LOOPS
    /\ a20_pc' = "kb_check"
    /\ UNCHANGED <<bios_works, kb_delay, fastg_works, a20_checks>>
    /\ UNCHANGED <<extVars, partVars, arithVars, vesaVars>>

\* One turn of __a20_check's loop, or its end, and with it __kb_enable_a20's
\* return.
A20CheckLoop ==
    /\ a20_pc = "kb_check"
    /\ IF loops > 0 /\ ~fast_a20_check(a20_line)
       THEN /\ loops' = loops - 1
            /\ kb_pending' = IF kb_pending > 0 /\ kb_pending # KbNever
                              THEN kb_pending - 1 ELSE kb_pending
            /\ a20_line' = (a20_line \/ kb_pending' = 0)
            /\ UNCHANGED <<a20_checks, a20_pc>>
       ELSE /\ a20_checks' = Append(a20_checks, loops > 0)
            /\ a20_pc' = or_else(loops > 0, "fastg")
            /\ UNCHANGED <<loops, kb_pending, a20_line>>
    /\ UNCHANGED <<bios_works, kb_delay, fastg_works, a20_calls>>
    /\ UNCHANGED <<extVars, partVars, arithVars, vesaVars>>

\* __fastg_enable_a20: bit 1 of port 0x92, then one check. By then the keyboard
\* controller may have opened the gate.
FastgEnableA20 ==
    /\ a20_pc = "fastg"
    /\ a20_calls' = Append(a20_calls, "fastg")
    /\ a20_line' = (a20_line \/ fastg_works)
    /\ a20_checks' = Append(a20_checks, fast_a20_check(a20_line'))
    /\ a20_pc' = or_else(fast_a20_check(a20_line'), "err")
    /\ UNCHANGED <<bios_works, kb_delay, fastg_works, kb_pending, loops>>
    /\ UNCHANGED <<extVars, partVars, arithVars, vesaVars>>

\* enable_a20 is not running.
A20Off ==
    /\ a20_line = FALSE
    /\ bios_works = FALSE
    /\ kb_delay = 0
    /\ fastg_works = FALSE
    /\ kb_pending = 0
    /\ loops = 0
    /\ a20_calls = <<>>
    /\ a20_checks = <<>>
    /\ a20_pc = "off"

(***************************************************************************)
(* Specifications                                                          *)
(***************************************************************************)

Init == ExtentInit /\ PartitionOff /\ ArithOff /\ VesaOff /\ A20Off

Next ==
    \/ LoadBegin
    \/ TraverseLeaf
    \/ TraverseIndexEntry
    \/ TraverseIndexDone
    \/ LoadFinish
    \/ Lookup

\* The extent tree of one inode: its load, then a lookup.
Spec == Init /\ [][Next]_vars

InitPart == ExtentOff /\ PartitionInit /\ ArithOff /\ VesaOff /\ A20Off

NextPart ==
    \/ FromMetadata
    \/ MetadataMut
    \/ AssignFs

\* One call of Partition::from_metadata, and the partition it returns in the hands
\* of its owner.
SpecPart == InitPart /\ [][NextPart]_vars

InitArith == ExtentOff /\ PartitionOff /\ ArithInit /\ VesaOff /\ A20Off

NextArith ==
    \/ AddBlkCount
    \/ AddU64
    \/ AddExtentLength
    \/ AddInodeRelBlkId

\* One application of a `+` of Ext4RealBlkId.
SpecArith == InitArith /\ [][NextArith]_vars

InitVesa == ExtentOff /\ PartitionOff /\ ArithOff /\ VesaInit /\ A20Off

NextVesa ==
    \/ VesaScanMode
    \/ VesaSetMode

\* One call of vesa_mode_setup.
SpecVesa == InitVesa /\ [][NextVesa]_vars

InitA20 == ExtentOff /\ PartitionOff /\ ArithOff /\ VesaOff /\ A20Init

NextA20 ==
    \/ A20InitialCheck
    \/ BiosEnableA20
    \/ KbEnableA20
    \/ A20CheckLoop
    \/ FastgEnableA20

\* One call of enable_a20.
SpecA20 == InitA20 /\ [][NextA20]_vars

\* traverse_extent_layer as the recursive function it is: the extents the layer of
\* blk appends from its entry `entry` on, over disk d. A layer that the step form
\* would not finish (a panic, nesting past the bound) appends nothing here.
RECURSIVE Walk(_, _, _, _)
Walk(d, blk, entry, fuel) ==
    IF is_leaf(get_header(blk))
    THEN IF get_header(blk).entries > Len(blk.recs) THEN <<>> ELSE LeafExtents(blk)
    ELSE IF entry >= get_header(blk).entries THEN <<>>
    ELSE LET raw == get_entry_bytes(blk, entry)
         IN  IF raw = Panic THEN <<>>
             ELSE LET got == read_blk_from_device(d, leaf(as_extent_idx(raw.some)))
                  IN  IF got = IoFail \/ fuel = 0 THEN <<>>
                      ELSE Walk(d, got.ok, 0, fuel - 1) \o Walk(d, blk, entry + 1, fuel)

(***************************************************************************)
(* Vocabulary of the properties, in unbounded arithmetic                   *)
(***************************************************************************)

\* b - ext.first as a u64 (meaningful when ext.first <= b).
OffsetIn(ext, b) == LimbSub(b, Widen(ext.block, 4)).diff

\* ext.first <= b < ext.first + n   /   ext.first <= b <= ext.first + n, for n < 2^16
WithinBelow(ext, b, n) ==
    /\ LimbLe(Widen(ext.block, 4), b)
    /\ LET d == OffsetIn(ext, b) IN d[2] = 0 /\ d[3] = 0 /\ d[4] = 0 /\ d[1] < n

WithinUpTo(ext, b, n) ==
    /\ LimbLe(Widen(ext.block, 4), b)
    /\ LET d == OffsetIn(ext, b) IN d[2] = 0 /\ d[3] = 0 /\ d[4] = 0 /\ d[1] <= n

\* b lies in the extent's half-open range [first, first + effective_len).
Covers(ext, b) == WithinBelow(ext, b, length(ext.len))

\* Some(ext.physical_start + (b - ext.first))
MappedInto(ext, b) == [some |-> LimbAdd(start_blk(ext), OffsetIn(ext, b)).sum]

\* ext.first + effective_len(ext), never wrapped.
EndOf(ext) == LimbAdd(Widen(ext.block, 4), U64Of(length(ext.len))).sum

\* Sorted and non-overlapping in logical space.
NonOverlapping(exts) ==
    \A i, j \in 1..Len(exts) : i < j => LimbLe(EndOf(exts[i]), Widen(exts[j].block, 4))

\* The "zero block" answer the specification gives for uninitialized extents.
ZeroBlock == [zero_block |-> TRUE]

LookedUp == pc = "loaded" /\ last_res # NoLookup

\* The load met no read failure and no malformed header.
FaultFreeLoad == ~read_failed /\ ~bad_header_seen /\ ~count_over_seen

\* The tree of a well-formed file: a fault-free load whose extents are sorted and
\* non-overlapping.
WellFormedTree == FaultFreeLoad /\ NonOverlapping(tree)

\* No extent's first + length leaves the u32 range.
EndsFitU32(exts) ==
    \A i \in 1..Len(exts) : LimbAdd(exts[i].block, U32Of(exts[i].len)).carry = 0

(***************************************************************************)
(* Properties of the lookup                                                *)
(***************************************************************************)

\* C1: in a loaded tree (of a well-formed file whose extents end below 2^32: the
\* violation rests neither on a malformed disk nor on u32 overflow), the lookup of a block inside an initialized extent's half-open range
\* returns that extent's physical start plus the block's offset in it, also when
\* another extent ends exactly at the extent's first block.
C1_CoveredBlockMapsIntoItsExtent ==
    (LookedUp /\ WellFormedTree /\ EndsFitU32(tree)) =>
        \A i \in 1..Len(tree) :
            (is_initialized(tree[i].len) /\ Covers(tree[i], last_blk))
                => last_res = MappedInto(tree[i], last_blk)

\* C2: the lookup of a block in the effective range of an uninitialized extent
\* returns the zero-block sentinel, and a block at or past the end of that range is
\* not answered from the extent.
C2_UninitializedReadsAsZero ==
    (LookedUp /\ WellFormedTree) =>
        \A i \in 1..Len(tree) :
            ~is_initialized(tree[i].len) =>
                /\ Covers(tree[i], last_blk) => last_res = ZeroBlock
                /\ LimbLe(EndOf(tree[i]), last_blk)
                       => last_res # MappedInto(tree[i], last_blk)

\* C3: the lookup of a block that lies in no extent's half-open range returns None.
C3_UncoveredBlockIsNotMapped ==
    (LookedUp /\ WellFormedTree) =>
        ((\A i \in 1..Len(tree) : ~Covers(tree[i], last_blk)) => last_res = None)

\* C4: the comparator reports a hit exactly when first <= logical <= first + length
\* (the raw length field, both ends included), and a one-extent tree answers a hit
\* with start + offset and a miss with None.
C4_ComparatorHitsInclusiveRange ==
    (LookedUp /\ FaultFreeLoad) =>
        /\ \A i \in 1..Len(tree) :
               (SearchCmp(tree[i], last_blk, overflow_checks) = "Equal")
                   <=> WithinUpTo(tree[i], last_blk, tree[i].len)
        /\ Len(tree) = 1 =>
               last_res = IF WithinUpTo(tree[1], last_blk, tree[1].len)
                          THEN MappedInto(tree[1], last_blk) ELSE None

(***************************************************************************)
(* Properties of the load                                                  *)
(***************************************************************************)

SortedByFirst(exts) ==
    \A i, j \in 1..Len(exts) : i < j => LimbLe(exts[i].block, exts[j].block)

Occurrences(exts, e) == Cardinality({i \in 1..Len(exts) : exts[i] = e})

SameRecords(a, b) ==
    /\ Len(a) = Len(b)
    /\ \A i \in 1..Len(a) : Occurrences(a, a[i]) = Occurrences(b, a[i])

C6_BadHeaderNeverLoads == bad_header_seen => pc # "loaded"

\* C7: no tree is returned by a load during which a child block read failed.
C7_ReadFailureDiscardsTree == read_failed => pc # "loaded"

\* C8: once a traversed header's entries count exceeded its max or the records its
\* node can hold, the load neither crashes nor returns a tree.
C8_CountOverAbortsLoad == count_over_seen => pc \notin {"loaded", "panicked"}

\* The stored tail of a child block equals the checksum of seed and body.
TailMatches(blk) == blk.tail = Crc32cCalc(ChksumSeed \o BlkBody(blk))

\* The disk with every child block's tail set to its checksum.
FixTails(d) ==
    [b \in DOMAIN d |->
        IF d[b] = IoFail THEN IoFail
        ELSE [d[b] EXCEPT !.tail = Crc32cCalc(ChksumSeed \o BlkBody(d[b]))]]

\* The child block the next step of the traversal reads successfully, if any.
ChildAboutToBeRead ==
    IF pc = "traverse" /\ stack # <<>> /\ ~is_leaf(get_header(Top.blk))
       /\ Top.entry < get_header(Top.blk).entries
       /\ get_entry_bytes(Top.blk, Top.entry) # Panic
    THEN read_blk_from_device(disk, leaf(as_extent_idx(get_entry_bytes(Top.blk, Top.entry).some)))
    ELSE IoFail

\* C9: a step that reads a child block emits one log when the block's tail differs
\* from its checksum and none when it matches, and enters the block either way; no
\* other step logs; and the tree returned is the one the same disk with matching
\* tails yields.
C9_ChecksumMismatchIsSoft ==
    /\ [](pc = "loaded" => tree = sort_unstable(Walk(FixTails(disk), i_block, 0, MaxStack)))
    /\ [][ IF ChildAboutToBeRead # IoFail
           THEN /\ log_count' = log_count + (IF TailMatches(ChildAboutToBeRead.ok) THEN 0 ELSE 1)
                /\ Len(stack') = Len(stack) + 1
                /\ stack'[Len(stack')] = Frame(ChildAboutToBeRead.ok)
                /\ pc' = "traverse"
           ELSE log_count' = log_count ]_vars

\* S4: a load that logged one mismatch and still returned both leaves' extents.
C9_Witness == pc = "loaded" /\ log_count = 1 /\ Len(tree) = 2 /\ ~read_failed

\* C15: a load ends for every disk content, and traverse_extent_layer is never
\* nested deeper than 5 levels below the inline node, also where an index entry
\* names the block it sits in and the depth in the headers does not decrease
\* (here: with valid magic and a depth within the limit in every header read).
C15_RecursionStaysWithinDepthLimit ==
    ~bad_header_seen => Len(stack) <= MAX_TREE_DEPTH + 1

\* load_extent_tree has returned.
Returned == pc \in {"loaded", "not_applicable"}

\* C16: when load_extent_tree has returned, by the feature gate, after a failed
\* child read or after a full traversal, no read guard of the load is left on the
\* filesystem, the superblock or the inode, so a later writer of the superblock
\* finds no reader.
C16_ReadGuardsReleasedOnReturn ==
    /\ Returned => (fs_readers = 0 /\ sb_readers = 0 /\ inode_readers = 0)
    /\ pc = "traverse" => ( /\ sb_readers = Len(stack)
                            /\ fs_readers = 1 /\ inode_readers = 1 )

C16_Witness ==
    /\ pc = "loaded"
    /\ read_failed
    /\ reads = 3
    /\ Len(extents) = 1
    /\ sb_readers = 0 /\ fs_readers = 0 /\ inode_readers = 0

(***************************************************************************)
(* Properties of the partition dispatch                                    *)
(***************************************************************************)

\* C10: from_metadata, called on an MBR entry of a recognized type other than
\* LinuxNative, returns a partition whose fs is Unknown (it does not panic).
C10_OtherMbrTypesAreRecordedUnknown ==
    ( /\ p_pc \notin {"off", "new"}
      /\ p_args.metadata.kind = "MBR"
      /\ p_args.metadata.type \in RecognizedTypeBytes
      /\ partition_type(p_args.metadata.type) # "LinuxNative" )
        => (p_pc = "created" /\ part # NoPart /\ part.fs = Unknown)

\* The start LBA from_metadata hands to identify and mount for its argument.
ArgLba ==
    IF p_args.metadata.kind = "MBR"
    THEN Widen(p_args.metadata.start_lba, 4)
    ELSE p_args.metadata.start_lba

\* from_metadata has been called and has ended (returned or panicked).
Dispatched == p_pc \in {"created", "none", "panicked"}

\* C11: one call of from_metadata on an MBR entry calls Ext4Fs::identify exactly
\* when the entry's type is LinuxNative (0x83), and then on the entry's start
\* LBA; an entry of any other type is not probed.
C11_OnlyLinuxNativeIsProbed ==
    (Dispatched /\ p_args.metadata.kind = "MBR") =>
        probed = IF p_args.metadata.type = 131 THEN <<ArgLba>> ELSE <<>>

C11_Witness ==
    /\ p_pc = "created"
    /\ p_args.metadata.kind = "MBR"
    /\ p_args.metadata.type = 0
    /\ p_args.metadata.start_lba = U32Of(100000)
    /\ p_identify = "true"
    /\ probed = <<>>

\* The probe of the candidate partition ended in an error: identify failed, or
\* identify answered true and mount failed.
ProbeFailed ==
    /\ Dispatched
    /\ probed # <<>>
    /\ (p_identify = "err" \/ (p_identify = "true" /\ p_mount = "err"))

\* C12: when identify fails, or identify answers true and mount fails, the
\* partition is still created, with fs = Unknown.
C12_FailedMountLeavesUnknownPartition ==
    ProbeFailed => (p_pc = "created" /\ part # NoPart /\ part.fs = Unknown)

\* C13: mount is called at most once and only where identify was called on the
\* same start LBA and answered true; where identify answered false, mount is not
\* called and the partition is created with fs = Unknown; fs is Ext4 only where
\* identify answered true and mount succeeded.
C13_MountFollowsPositiveIdentify ==
    /\ Len(mounted) <= 1 /\ Len(probed) <= 1
    /\ mounted # <<>> => (probed = mounted /\ p_identify = "true")
    /\ (Dispatched /\ probed # <<>> /\ p_identify = "false")
           => (mounted = <<>> /\ p_pc = "created" /\ part.fs = Unknown)
    /\ (part # NoPart /\ part.fs # Unknown)
           => ( /\ probed = <<ArgLba>> /\ mounted = <<ArgLba>>
                /\ p_identify = "true" /\ p_mount = "ok"
                /\ part.fs = Ext4(p_args.drive_id, p_args.part_id, ArgLba) )

C13_Witness ==
    /\ p_pc = "created"
    /\ p_args.metadata.kind = "GPT"
    /\ part.fs = Ext4(0, 1, <<0, 0, 1, 0>>)
    /\ mounted = <<(<<0, 0, 1, 0>>)>>
    /\ part.metadata = p_args.metadata

\* C14: a partition stays what from_metadata returned: its id, drive_id, metadata
\* and fs do not change, so start_lba() keeps its value and a mounted partition
\* stays mounted.
C14_PartitionIsImmutable ==
    p_pc = "created" =>
        /\ part = [id |-> p_args.part_id, drive_id |-> p_args.drive_id,
                   metadata |-> p_args.metadata,
                   fs |-> match_metadata(p_args, p_identify, p_mount).fs]
        /\ start_lba(part) = ArgLba

(***************************************************************************)
(* Properties of the block-id arithmetic                                   *)
(***************************************************************************)

\* C17: every `+` of Ext4RealBlkId (with a u64, a block count, an extent length,
\* a logical block offset) yields the sum, or u64::MAX where the sum does not fit;
\* none wraps around or panics.
C17_BlockIdAdditionSaturates ==
    a_op \notin {"off", "none"} => a_res = [val |-> SaturatingAdd(a_lhs, a_rhs)]

(***************************************************************************)
(* Properties of the video mode choice                                     *)
(***************************************************************************)

\* A reported mode the choice is made among.
Eligible(m) == m.queryable /\ passes_filters(m)

AbsDiff(a, b) == IF a >= b THEN a - b ELSE b - a

\* (width - x)^2 + (height - y)^2 over the integers, in three 16-bit limbs.
SquaredDistance(m) ==
    LimbAdd(Widen(Sq16(AbsDiff(m.width, v_x)), 3), Widen(Sq16(AbsDiff(m.height, v_y)), 3)).sum

\* m is at least as good a fit as n: nearer, or as near with no fewer bits per pixel.
FitsNoWorse(m, n) ==
    \/ LimbLt(SquaredDistance(m), SquaredDistance(n))
    \/ /\ SquaredDistance(m) = SquaredDistance(n)
       /\ m.bits_per_pixel >= n.bits_per_pixel

\* C18: where some reported mode passes the filters, vesa_mode_setup does not
\* panic, and the mode it sets is a reported mode that passes the filters and is
\* nearest to the requested size in squared Euclidean distance, with the most
\* bits per pixel among the nearest.
C18_NearestModeIsSet ==
    (v_pc # "off" /\ \E i \in 1..Len(v_modes) : Eligible(v_modes[i])) =>
        /\ v_pc # "panicked"
        /\ v_pc = "set" =>
              \E i \in 1..Len(v_modes) :
                  /\ Eligible(v_modes[i])
                  /\ best_mode = set_linear_bit(v_modes[i].mode)
                  /\ \A j \in 1..Len(v_modes) :
                        Eligible(v_modes[j]) => FitsNoWorse(v_modes[i], v_modes[j])

(***************************************************************************)
(* Properties of enable_a20                                                *)
(***************************************************************************)

\* C19: the methods are invoked in the order BIOS, keyboard controller, fast
\* gate, each only after every check before it (the initial one and the one that
\* followed each earlier method) found the gate closed; enable_a20 returns Ok
\* exactly where its latest check found the gate open, without any method where
\* that was the initial check, and Err only after all three methods were invoked
\* and the check after each failed.
C19_MethodsTriedInOrderUntilSuccess ==
    /\ a20_calls = SubSeq(Methods, 1, Len(a20_calls))
    /\ Len(a20_checks) <= Len(a20_calls) + 1
    /\ \A i \in 1..Len(a20_calls) : i <= Len(a20_checks) /\ ~a20_checks[i]
    /\ a20_pc = "ok" <=> ( /\ Len(a20_checks) = Len(a20_calls) + 1
                           /\ a20_checks[Len(a20_checks)] )
    /\ a20_pc = "err" <=> ( /\ a20_calls = Methods
                            /\ a20_checks = <<FALSE, FALSE, FALSE, FALSE>> )

C19_Witness ==
    /\ a20_pc = "ok"
    /\ a20_calls = <<"bios", "kb">>
    /\ a20_checks = <<FALSE, FALSE, TRUE>>
    /\ loops = 1

====
